---- MODULE Spec2Model ----
(***************************************************************************)
(* Preprocessing of ios/Blaze-Bridging-Header.h inside one translation     *)
(* unit.  The header is a list of directives; the preprocessor walks it    *)
(* one directive per step, keeping a macro table, the set of files already *)
(* brought in by #import, and the stack of files being processed.          *)
(***************************************************************************)
EXTENDS Naturals, Sequences, FiniteSets

\* How many times the translation unit itself includes the bridging header.
MaxIncludes == 2

\* How many times one framework header may include the bridging header back.
MaxReinclude == 1

Bridging == "Blaze-Bridging-Header.h"

Blaze_Bridging_Header_h == "Blaze_Bridging_Header_h"

\* A macro of the translation unit that the bridging header does not mention.
OtherMacro == "BLAZE_OTHER"

\* Variants of the header used to test the sensitivity of the properties.
HeaderMissingLog ==
  << [op |-> "ifndef", arg |-> Blaze_Bridging_Header_h],
     [op |-> "define", arg |-> Blaze_Bridging_Header_h],
     [op |-> "import", arg |-> "RCTBridgeModule"],
     [op |-> "import", arg |-> "RCTEventEmitter"],
     [op |-> "import", arg |-> "RCTViewManager"],
     [op |-> "import", arg |-> "RCTConvert"],
     [op |-> "endif",  arg |-> Blaze_Bridging_Header_h] >>

HeaderExtraDefine ==
  << [op |-> "ifndef", arg |-> Blaze_Bridging_Header_h],
     [op |-> "define", arg |-> Blaze_Bridging_Header_h],
     [op |-> "define", arg |-> OtherMacro],
     [op |-> "import", arg |-> "RCTBridgeModule"],
     [op |-> "import", arg |-> "RCTEventEmitter"],
     [op |-> "import", arg |-> "RCTViewManager"],
     [op |-> "import", arg |-> "RCTConvert"],
     [op |-> "import", arg |-> "RCTLog"],
     [op |-> "endif",  arg |-> Blaze_Bridging_Header_h] >>

HeaderDefineLast ==
  << [op |-> "ifndef", arg |-> Blaze_Bridging_Header_h],
     [op |-> "import", arg |-> "RCTBridgeModule"],
     [op |-> "import", arg |-> "RCTEventEmitter"],
     [op |-> "import", arg |-> "RCTViewManager"],
     [op |-> "import", arg |-> "RCTConvert"],
     [op |-> "import", arg |-> "RCTLog"],
     [op |-> "define", arg |-> Blaze_Bridging_Header_h],
     [op |-> "endif",  arg |-> Blaze_Bridging_Header_h] >>

\* The directives of the file, in order (lines 8-17).
Header ==
  << [op |-> "ifndef", arg |-> Blaze_Bridging_Header_h],
     [op |-> "define", arg |-> Blaze_Bridging_Header_h],
     [op |-> "import", arg |-> "RCTBridgeModule"],
     [op |-> "import", arg |-> "RCTEventEmitter"],
     [op |-> "import", arg |-> "RCTViewManager"],
     [op |-> "import", arg |-> "RCTConvert"],
     [op |-> "import", arg |-> "RCTLog"],
     [op |-> "endif",  arg |-> Blaze_Bridging_Header_h] >>

\* The framework headers named by the #import lines of the file.
FrameworkHeaders ==
  {"RCTBridgeModule", "RCTEventEmitter", "RCTViewManager", "RCTConvert", "RCTLog"}

VARIABLES
  macros,      \* macro table of the translation unit
  included,    \* framework files already brought in (the once-only memory of #import)
  imports,     \* framework headers whose #import line in the bridging header was processed
  nProcessed,  \* number of #import lines of the bridging header processed so far
  stack,       \* files being processed, innermost last
  nIncl,       \* inclusions of the bridging header made by the translation unit
  log          \* one record per completed top-level inclusion

vars == <<macros, included, imports, nProcessed, stack, nIncl, log>>

Top == stack[Len(stack)]

Pop == SubSeq(stack, 1, Len(stack) - 1)

SetTop(f) == [stack EXCEPT ![Len(stack)] = f]

BridgingFrame == [file |-> Bridging, pc |-> 1,
                  guarded |-> Blaze_Bridging_Header_h \in macros, re |-> 0]

FrameworkFrame(h) == [file |-> h, pc |-> 1, guarded |-> FALSE, re |-> 0]

\* TRUE when the innermost file is the bridging header standing at a directive `o`.
AtDirective(o) ==
  /\ stack # << >>
  /\ Top.file = Bridging
  /\ Top.pc \in DOMAIN Header
  /\ Header[Top.pc].op = o

\* Index of the #endif that closes the conditional opened at pc.
MatchEndif(pc) ==
  CHOOSE j \in DOMAIN Header :
    /\ j > pc
    /\ Header[j].op = "endif"
    /\ \A k \in DOMAIN Header : (k > pc /\ Header[k].op = "endif") => j <= k

\* A conditional that never skips its body.
IfndefNoSkip(pc, m) == pc + 1

\* Where #ifndef at pc continues, given the macro table m.
IfndefTarget(pc, m) ==
  IF Header[pc].arg \in m THEN MatchEndif(pc) + 1 ELSE pc + 1

Init ==
  /\ macros \in SUBSET {Blaze_Bridging_Header_h, OtherMacro}
  /\ included \in SUBSET FrameworkHeaders
  /\ imports = {}
  /\ nProcessed = 0
  /\ stack = << >>
  /\ nIncl = 0
  /\ log = << >>

\* The translation unit includes the bridging header.
TUInclude ==
  /\ stack = << >>
  /\ nIncl < MaxIncludes
  /\ stack' = << BridgingFrame >>
  /\ nIncl' = nIncl + 1
  /\ UNCHANGED <<macros, included, imports, nProcessed, log>>

\* Line 8: #ifndef Blaze_Bridging_Header_h
Ifndef ==
  /\ AtDirective("ifndef")
  /\ stack' = SetTop([Top EXCEPT !.pc = IfndefTarget(Top.pc, macros)])
  /\ UNCHANGED <<macros, included, imports, nProcessed, nIncl, log>>

\* Line 9: #define Blaze_Bridging_Header_h
Define ==
  /\ AtDirective("define")
  /\ macros' = macros \cup {Header[Top.pc].arg}
  /\ stack' = SetTop([Top EXCEPT !.pc = Top.pc + 1])
  /\ UNCHANGED <<included, imports, nProcessed, nIncl, log>>

\* Lines 11-15: #import <React/...>; the file is entered only if not yet brought in.
Import ==
  /\ AtDirective("import")
  /\ LET h == Header[Top.pc].arg
         advanced == SetTop([Top EXCEPT !.pc = Top.pc + 1])
     IN /\ imports' = imports \cup {h}
        /\ nProcessed' = nProcessed + 1
        /\ included' = included \cup {h}
        /\ stack' = IF h \in included THEN advanced
                                      ELSE Append(advanced, FrameworkFrame(h))
  /\ UNCHANGED <<macros, nIncl, log>>

\* Line 17: #endif
Endif ==
  /\ AtDirective("endif")
  /\ stack' = SetTop([Top EXCEPT !.pc = Top.pc + 1])
  /\ UNCHANGED <<macros, included, imports, nProcessed, nIncl, log>>

\* End of the bridging header: return to the including file.
EndOfFile ==
  /\ stack # << >>
  /\ Top.file = Bridging
  /\ Top.pc = Len(Header) + 1
  /\ stack' = Pop
  /\ log' = IF Len(stack) = 1
              THEN Append(log, [guardBefore |-> Top.guarded,
                                macros |-> macros, imports |-> imports,
                                included |-> included, nProcessed |-> nProcessed])
              ELSE log
  /\ UNCHANGED <<macros, included, imports, nProcessed, nIncl>>

\* A framework header includes the bridging header back (circular inclusion).
FrameworkReinclude ==
  /\ stack # << >>
  /\ Top.file \in FrameworkHeaders
  /\ Top.re < MaxReinclude
  /\ stack' = Append(SetTop([Top EXCEPT !.re = Top.re + 1]), BridgingFrame)
  /\ UNCHANGED <<macros, included, imports, nProcessed, nIncl, log>>

\* End of a framework header.
FrameworkDone ==
  /\ stack # << >>
  /\ Top.file \in FrameworkHeaders
  /\ stack' = Pop
  /\ UNCHANGED <<macros, included, imports, nProcessed, nIncl, log>>

Process ==
  \/ Ifndef
  \/ Define
  \/ Import
  \/ Endif
  \/ EndOfFile
  \/ FrameworkReinclude
  \/ FrameworkDone

Next ==
  \/ TUInclude
  \/ Process

Spec == Init /\ [][Next]_vars

\* The preprocessor does not stop in the middle of a file.
FairSpec == Spec /\ WF_vars(Process)

(***************************************************************************)
(* Properties                                                              *)
(***************************************************************************)

\* Outermost inclusion of the bridging header, when one is in progress.
Outer == stack[1]

\* C1: once the header has been processed in a translation unit where
\* Blaze_Bridging_Header_h was not defined, the framework headers it has
\* imported are exactly RCTBridgeModule, RCTEventEmitter, RCTViewManager,
\* RCTConvert and RCTLog; at no time has it imported any other header.
C1_ExactlyFiveImports ==
  /\ imports \subseteq FrameworkHeaders
  /\ \A i \in DOMAIN log :
       ~log[i].guardBefore =>
         /\ log[i].imports = FrameworkHeaders
         /\ log[i].nProcessed = Cardinality(FrameworkHeaders)
         /\ FrameworkHeaders \subseteq log[i].included

C1_Witness ==
  /\ log # << >>
  /\ ~log[1].guardBefore
  /\ imports = FrameworkHeaders

\* C2 as stated: processing the file defines no macro, so no step changes
\* the macro table of the translation unit.
C2_NoMacroDefined == [][macros' = macros]_vars

\* C2 as amended: the only entity the file defines is its include guard.
\* No step removes a macro or a brought-in file, the only macro a step can
\* add is Blaze_Bridging_Header_h, and the only files a step can bring in
\* are the five framework headers.
C2_OnlyGuardDefined ==
  [][ /\ macros \subseteq macros'
      /\ (macros' \ macros) \subseteq {Blaze_Bridging_Header_h}
      /\ included \subseteq included'
      /\ (included' \ included) \subseteq FrameworkHeaders ]_vars

C2_Witness ==
  /\ stack # << >>
  /\ ~Outer.guarded
  /\ Blaze_Bridging_Header_h \in macros
  /\ OtherMacro \notin macros
  /\ imports = FrameworkHeaders

\* The state left by every completed inclusion equals the one left by the first.
C3_SameAsFirst ==
  /\ \A i \in DOMAIN log :
       /\ log[i].macros = log[1].macros
       /\ log[i].imports = log[1].imports
       /\ log[i].included = log[1].included
       /\ log[i].nProcessed = log[1].nProcessed
  /\ (stack = << >> /\ log # << >>) =>
       /\ macros = log[1].macros
       /\ imports = log[1].imports
       /\ included = log[1].included

\* A step of an inclusion entered with the guard defined changes nothing
\* and processes no #import line.
C3_GuardedStep ==
  (stack # << >> /\ Top.file = Bridging /\ Top.guarded) =>
    /\ macros' = macros
    /\ imports' = imports
    /\ included' = included
    /\ nProcessed' = nProcessed

\* C3: inclusion is idempotent: after any number of inclusions the macro
\* table and the imported headers are those left by the first inclusion, and
\* an inclusion made while Blaze_Bridging_Header_h is defined processes none
\* of the five imports and leaves the state unchanged.
C3_Idempotent == []C3_SameAsFirst /\ [][C3_GuardedStep]_vars

C3_Witness ==
  /\ Len(log) >= 2
  /\ ~log[1].guardBefore
  /\ log[2].guardBefore
  /\ stack = << >>

\* Whenever an #import line has been processed the guard is defined.
C4_GuardBeforeImport ==
  (nProcessed > 0 \/ imports # {}) => Blaze_Bridging_Header_h \in macros

\* A nested inclusion of the bridging header finds the guard defined and
\* is either at its first line or past its last one.
C4_NestedSkipped ==
  \A i \in DOMAIN stack :
    (i > 1 /\ stack[i].file = Bridging) =>
      /\ stack[i].guarded
      /\ stack[i].pc \in {1, Len(Header) + 1}

\* C4: the guard is defined before any import is processed, so a circular
\* inclusion coming from an imported header is skipped, and processing of
\* the header terminates.
C4_GuardFirstAndTerminates ==
  /\ []C4_GuardBeforeImport
  /\ []C4_NestedSkipped
  /\ ((stack # << >>) ~> (stack = << >>))

C4_Witness ==
  /\ Len(stack) >= 3
  /\ Top.file = Bridging
  /\ Top.guarded
  /\ Top.pc = Len(Header) + 1
  /\ ~Outer.guarded

====
